---- MODULE Spec2Model ----
(***************************************************************************)
(* Thought Filter plugin for OpenClaw (src/index.ts).                      *)
(*                                                                         *)
(* The file holds two plugins, each registering one message_sending hook:  *)
(*   - the scoring plugin (lines 15-189): scoreMessage sums the weights of *)
(*     the SIGNALS that match the message and the hook cancels the send    *)
(*     when the score reaches BLOCK_THRESHOLD;                             *)
(*   - the line filter plugin (lines 205-329): filterThoughts drops the    *)
(*     lines isThoughtLine flags and the hook cancels, rewrites or passes  *)
(*     the message.                                                        *)
(*                                                                         *)
(* Text.  A text is a sequence of tokens.  A token is a string: a line     *)
(* break, a blank, a punctuation mark or a phrase of the Lexicon; the      *)
(* JavaScript string it stands for is the concatenation of its tokens.     *)
(* No phrase begins or ends with whitespace, so String.trim removes whole  *)
(* tokens, and String.split("\n") cuts at whole tokens.                    *)
(*                                                                         *)
(* Regular expressions.  Each RegExp literal of the source is a record     *)
(* [kind, head, tail] read by Matches.  head and tail list the phrases of  *)
(* the Lexicon in which the alternatives of the expression occur, under    *)
(* the literal's i flag ("hola" is in the head of /^(?:...|Hola|...)/i).   *)
(* Over the Lexicon the record and the literal accept the same texts; two  *)
(* literals (lines 123 and 124) match no phrase of it and have an empty    *)
(* head.  A RegExp object also carries lastIndex, which test() reads and   *)
(* writes under the g and y flags only (RegExpTest).                       *)
(***************************************************************************)
EXTENDS Integers, Sequences, FiniteSets, TLC

VARIABLES
    content,    \* the text of the message being sent
    absent,     \* the message has no text: event.content is undefined
    channelId,  \* ctx.channelId of the last hook invocation
    hook,       \* which plugin's message_sending hook ran last
    pc,         \* "compose": the agent is writing; "sent": a hook has run
    decision,   \* what the hook returned
    emitted,    \* api.logger records written by the last invocation
    lastIndex,  \* lastIndex of every RegExp object of the three registries
    calls,      \* scoreMessage / filterThoughts calls of the last invocation
    earlier     \* history: an earlier message has gone through a hook

vars == <<content, absent, channelId, hook, pc, decision, emitted, lastIndex, calls,
          earlier>>

\* Longest message, in tokens.
MaxLen == 3

\* The tokens messages are written from.
Vocabulary ==
    {"\n", " ", ".", "hola", "gracias", "Voy a buscar", "quiere saber",
     "Pero no me dice"}

Channels == {"whatsapp", "telegram"}

Whitespace == {" ", "\n"}

BLOCK_THRESHOLD == 50

Lexicon ==
    {" ",
     "\n",
     ".",
     ":",
     "?",
     "hola",
     "Voy a buscar",
     "quiere saber",
     "gracias",
     "Le digo",
     "Perdona que estaba",
     "en realidad",
     "Ejecuto el",
     "soy un bot",
     "parte #123",
     "Es Pedro, el del USB",
     "Ahora te digo",
     "No tengo contexto",
     "45 euros",
     "Let me check",
     "No queda claro",
     "Ahora lo pillo",
     "aviso a Efren ya",
     "Jose dice",
     "le paso a Jose ya",
     "pedido #4567",
     "no es cliente",
     "pregunta por",
     "dice que viene",
     "ya que estoy esperando",
     "tema comercial",
     "fuera de mi alcance",
     "no tiene ficha",
     "en la BD",
     "(612345678)",
     "me manda foto",
     "Veo que pide",
     "ya que es horario de cierre",
     "estamos a las 5",
     "antes de contestar",
     "fuera de horario",
     "Pero no me dice",
     "no me indica si",
     "Buscando el",
     "Le pregunto si",
     "soy Claudia, la",
     "Checking the",
     "dime",
     "Vale",
     "https://tienda.com",
     "No entiendo",
     "Relleno el",
     "Bloqueado",
     "En principio"}

SIGNALS == <<
    \* index.ts line 35
    [pattern |-> [kind |-> "prefix", head |-> {"Voy a buscar"}, tail |-> {}],
     score |-> 40, label |-> "monologue-start"],
    \* index.ts line 36
    [pattern |-> [kind |-> "find", head |-> {"No tengo contexto"}, tail |-> {}],
     score |-> 45, label |-> "no-context"],
    \* index.ts line 37
    [pattern |-> [kind |-> "find", head |-> {"No queda claro"}, tail |-> {}],
     score |-> 40, label |-> "confusion"],
    \* index.ts line 38
    [pattern |-> [kind |-> "prefix", head |-> {"Ahora lo pillo"}, tail |-> {}],
     score |-> 40, label |-> "realization"],
    \* index.ts line 41
    [pattern |-> [kind |-> "find", head |-> {"aviso a Efren ya", "le paso a Jose ya"}, tail |-> {}],
     score |-> 40, label |-> "mentions-boss"],
    \* index.ts line 42
    [pattern |-> [kind |-> "find", head |-> {"Jose dice"}, tail |-> {}],
     score |-> 30, label |-> "references-boss"],
    \* index.ts line 43
    [pattern |-> [kind |-> "find", head |-> {"le paso a Jose ya"}, tail |-> {}],
     score |-> 40, label |-> "action-toward-boss"],
    \* index.ts line 46
    [pattern |-> [kind |-> "find", head |-> {"parte #123"}, tail |-> {}],
     score |-> 30, label |-> "part-id"],
    \* index.ts line 47
    [pattern |-> [kind |-> "find", head |-> {"pedido #4567"}, tail |-> {}],
     score |-> 30, label |-> "order-id"],
    \* index.ts line 50
    [pattern |-> [kind |-> "find", head |-> {"no es cliente"}, tail |-> {}],
     score |-> 30, label |-> "internal-classification"],
    \* index.ts line 51
    [pattern |-> [kind |-> "find", head |-> {"pregunta por"}, tail |-> {}],
     score |-> 20, label |-> "third-person-narration"],
    \* index.ts line 52
    [pattern |-> [kind |-> "find", head |-> {"dice que viene"}, tail |-> {}],
     score |-> 25, label |-> "relays-client-speech"],
    \* index.ts line 53
    [pattern |-> [kind |-> "find", head |-> {"ya que estoy esperando"}, tail |-> {}],
     score |-> 20, label |-> "work-in-progress"],
    \* index.ts line 56
    [pattern |-> [kind |-> "prefix", head |-> {"Es Pedro, el del USB"}, tail |-> {}],
     score |-> 35, label |-> "client-identification"],
    \* index.ts line 59
    [pattern |-> [kind |-> "find", head |-> {"tema comercial"}, tail |-> {}],
     score |-> 25, label |-> "internal-vocab"],
    \* index.ts line 60
    [pattern |-> [kind |-> "find", head |-> {"fuera de mi alcance"}, tail |-> {}],
     score |-> 25, label |-> "scope-assessment"],
    \* index.ts line 61
    [pattern |-> [kind |-> "find", head |-> {"no tiene ficha"}, tail |-> {}],
     score |-> 35, label |-> "no-file"],
    \* index.ts line 62
    [pattern |-> [kind |-> "find", head |-> {"en la BD"}, tail |-> {}],
     score |-> 20, label |-> "internal-system"],
    \* index.ts line 63
    [pattern |-> [kind |-> "find", head |-> {"(612345678)"}, tail |-> {}],
     score |-> 20, label |-> "phone-in-parens"],
    \* index.ts line 66
    [pattern |-> [kind |-> "find", head |-> {"me manda foto"}, tail |-> {}],
     score |-> 20, label |-> "narrating-receipt"],
    \* index.ts line 67
    [pattern |-> [kind |-> "find", head |-> {"Veo que pide"}, tail |-> {}],
     score |-> 15, label |-> "narrating-observation"],
    \* index.ts line 70
    [pattern |-> [kind |-> "find", head |-> {"ya que es horario de cierre"}, tail |-> {}],
     score |-> 25, label |-> "schedule-context"],
    \* index.ts line 71
    [pattern |-> [kind |-> "find", head |-> {"estamos a las 5"}, tail |-> {}],
     score |-> 20, label |-> "time-reference"],
    \* index.ts line 72
    [pattern |-> [kind |-> "find", head |-> {"antes de contestar"}, tail |-> {}],
     score |-> 25, label |-> "before-acting"],
    \* index.ts line 73
    [pattern |-> [kind |-> "find", head |-> {"fuera de horario"}, tail |-> {}],
     score |-> 20, label |-> "shift-reference"],
    \* index.ts line 76
    [pattern |-> [kind |-> "find", head |-> {"Pero no me dice"}, tail |-> {}],
     score |-> 30, label |-> "but-doesnt-say"],
    \* index.ts line 77
    [pattern |-> [kind |-> "find", head |-> {"no me indica si"}, tail |-> {}],
     score |-> 30, label |-> "unclear-intent"],
    \* index.ts line 80
    [pattern |-> [kind |-> "sentence", head |-> {"Ejecuto el"}, tail |-> {"."}],
     score |-> 20, label |-> "narrating-action"],
    \* index.ts line 81
    [pattern |-> [kind |-> "sentence", head |-> {"Buscando el"}, tail |-> {"."}],
     score |-> 20, label |-> "narrating-gerund"],
    \* index.ts line 84
    [pattern |-> [kind |-> "prefix", head |-> {"Le pregunto si"}, tail |-> {}],
     score |-> 30, label |-> "planning-ask"],
    \* index.ts line 85
    [pattern |-> [kind |-> "trailing", head |-> {"Le digo", "Le pregunto si"}, tail |-> {":"}],
     score |-> 35, label |-> "trailing-thought"],
    \* index.ts line 88
    [pattern |-> [kind |-> "after", head |-> {"Voy a buscar"}, tail |-> {"."}],
     score |-> 30, label |-> "mid-sentence-plan"],
    \* index.ts line 91
    [pattern |-> [kind |-> "find", head |-> {"soy un bot"}, tail |-> {}],
     score |-> 50, label |-> "reveals-ai"],
    \* index.ts line 92
    [pattern |-> [kind |-> "find", head |-> {"soy Claudia, la"}, tail |-> {}],
     score |-> 15, label |-> "claudia-identity"],
    \* index.ts line 95
    [pattern |-> [kind |-> "prefix", head |-> {"Let me check"}, tail |-> {}],
     score |-> 40, label |-> "english-monologue"],
    \* index.ts line 96
    [pattern |-> [kind |-> "prefix", head |-> {"Checking the"}, tail |-> {}],
     score |-> 30, label |-> "english-narration"],
    \* index.ts line 99
    [pattern |-> [kind |-> "find", head |-> {"quiere saber"}, tail |-> {}],
     score |-> 25, label |-> "meta-commentary"],
    \* index.ts line 106
    [pattern |-> [kind |-> "prefix", head |-> {"hola"}, tail |-> {}],
     score |-> -50, label |-> "greeting"],
    \* index.ts line 109
    [pattern |-> [kind |-> "find", head |-> {"?"}, tail |-> {}],
     score |-> -15, label |-> "question-mark"],
    \* index.ts line 110
    [pattern |-> [kind |-> "find", head |-> {"Ahora te digo"}, tail |-> {}],
     score |-> -15, label |-> "direct-address-te"],
    \* index.ts line 111
    [pattern |-> [kind |-> "find", head |-> {"dime"}, tail |-> {}],
     score |-> -20, label |-> "invitation"],
    \* index.ts line 114
    [pattern |-> [kind |-> "short", head |-> {}, tail |-> {}],
     score |-> -15, label |-> "short-message"],
    \* index.ts line 117
    [pattern |-> [kind |-> "prefix", head |-> {"Vale"}, tail |-> {}],
     score |-> -40, label |-> "acknowledgement"],
    \* index.ts line 120
    [pattern |-> [kind |-> "prefix", head |-> {"Ahora te digo"}, tail |-> {}],
     score |-> -40, label |-> "hold-message"],
    \* index.ts line 123
    [pattern |-> [kind |-> "prefix", head |-> {}, tail |-> {}],
     score |-> -40, label |-> "es-que"],
    \* index.ts line 124
    [pattern |-> [kind |-> "prefix", head |-> {}, tail |-> {}],
     score |-> -30, label |-> "es-verdad"],
    \* index.ts line 127
    [pattern |-> [kind |-> "prefix", head |-> {"Perdona que estaba"}, tail |-> {}],
     score |-> -30, label |-> "apology"],
    \* index.ts line 130
    [pattern |-> [kind |-> "find", head |-> {"https://tienda.com"}, tail |-> {}],
     score |-> -20, label |-> "contains-url"],
    \* index.ts line 131
    [pattern |-> [kind |-> "find", head |-> {"45 euros"}, tail |-> {}],
     score |-> -15, label |-> "contains-price"] >>

THOUGHT_PATTERNS == <<
    \* index.ts line 211
    [kind |-> "prefix", head |-> {"Voy a buscar", "Ahora lo pillo"}, tail |-> {}],
    \* index.ts line 212
    [kind |-> "prefix", head |-> {"No tengo contexto"}, tail |-> {}],
    \* index.ts line 213
    [kind |-> "prefix", head |-> {"No queda claro", "No entiendo"}, tail |-> {}],
    \* index.ts line 214
    [kind |-> "prefix", head |-> {"Le pregunto si"}, tail |-> {}],
    \* index.ts line 215
    [kind |-> "prefix", head |-> {"Buscando el"}, tail |-> {}],
    \* index.ts line 216
    [kind |-> "prefix", head |-> {"Relleno el"}, tail |-> {}],
    \* index.ts line 217
    [kind |-> "prefix", head |-> {"Bloqueado"}, tail |-> {}],
    \* index.ts line 220
    [kind |-> "prefix", head |-> {"Es Pedro, el del USB"}, tail |-> {}],
    \* index.ts line 223
    [kind |-> "sentence", head |-> {"Voy a buscar"}, tail |-> {"."}],
    \* index.ts line 224
    [kind |-> "sentence", head |-> {"Ejecuto el"}, tail |-> {"."}],
    \* index.ts line 227
    [kind |-> "prefix", head |-> {"En principio"}, tail |-> {}],
    \* index.ts line 230
    [kind |-> "prefix", head |-> {"Let me check"}, tail |-> {}],
    \* index.ts line 233
    [kind |-> "find", head |-> {"quiere saber"}, tail |-> {}],
    \* index.ts line 236
    [kind |-> "trailing", head |-> {"Le digo", "Le pregunto si"}, tail |-> {":"}],
    \* index.ts line 239
    [kind |-> "span", head |-> {"Perdona que estaba"}, tail |-> {"en realidad"}] >>

SAFE_PATTERNS == <<
    \* index.ts line 244
    [kind |-> "prefix", head |-> {"hola", "Vale"}, tail |-> {}],
    \* index.ts line 245
    [kind |-> "prefix", head |-> {"dime"}, tail |-> {}],
    \* index.ts line 246
    [kind |-> "prefix", head |-> {"Perdona que estaba"}, tail |-> {}],
    \* index.ts line 247
    [kind |-> "prefix", head |-> {"Ahora te digo"}, tail |-> {}] >>

(***************************************************************************)
(* RegExp matching                                                         *)
(***************************************************************************)

\* The flags with g added (/.../gi).
RegExpFlagsGlobal == {"g", "i"}

\* Every RegExp literal of the source is written /.../i.
RegExpFlags == {"i"}

RECURSIVE Chars(_)
\* String length of a text: the sum of the lengths of its tokens.
Chars(s) == IF s = <<>> THEN 0 ELSE Len(Head(s)) + Chars(Tail(s))

NoLineBreak(s, a, b) == \A x \in a..b : s[x] # "\n"

\* The matches of pattern p in text s, each <<b, e>>: the match covers
\* tokens b+1 .. e.
Matches(p, s) ==
    LET n == Len(s) IN
    CASE p.kind = "prefix" ->      \* ^(?:A|B|...)
            IF n > 0 /\ s[1] \in p.head THEN {<<0, 1>>} ELSE {}
      [] p.kind = "find" ->        \* (?:A|B|...)
            {<<i - 1, i>> : i \in {j \in 1..n : s[j] \in p.head}}
      [] p.kind = "sentence" ->    \* (?:^|\. )(?:A|B|...)
            {<<0, i>> : i \in {j \in 1..n : j = 1 /\ s[j] \in p.head}}
            \cup {<<i - 3, i>> : i \in {j \in 3..n :
                     s[j] \in p.head /\ s[j-1] = " " /\ s[j-2] \in p.tail}}
      [] p.kind = "after" ->       \* (?:\.\s*|;\s*|-\s*)A
            {<<m[1] - 1, m[2]>> : m \in {q \in (1..n) \X (1..n) :
                     /\ q[1] < q[2]
                     /\ s[q[1]] \in p.tail
                     /\ s[q[2]] \in p.head
                     /\ \A x \in (q[1]+1)..(q[2]-1) : s[x] \in Whitespace}}
      [] p.kind = "trailing" ->    \* (?:A|B).*:$
            {<<i - 1, n>> : i \in {j \in 1..n :
                     /\ j < n
                     /\ s[j] \in p.head
                     /\ s[n] \in p.tail
                     /\ NoLineBreak(s, j + 1, n)}}
      [] p.kind = "span" ->        \* ^(?:A|B).*(?:C|D)
            {<<0, i>> : i \in {j \in 2..n :
                     /\ s[1] \in p.head
                     /\ s[j] \in p.tail
                     /\ NoLineBreak(s, 2, j - 1)}}
      [] p.kind = "short" ->       \* ^.{1,25}$
            IF NoLineBreak(s, 1, n) /\ Chars(s) >= 1 /\ Chars(s) <= 25
            THEN {<<0, n>>} ELSE {}

\* RegExp.prototype.test(s) on a RegExp object whose lastIndex is li: the
\* search starts at lastIndex when the g or y flag is set and at 0 otherwise;
\* only under those flags is lastIndex written (the end of the match, or 0
\* when nothing matched).
RegExpTest(p, s, li) ==
    LET global == "g" \in RegExpFlags \/ "y" \in RegExpFlags
        start  == IF global THEN li ELSE 0
        found  == {m \in Matches(p, s) : m[1] >= start}
        first  == CHOOSE m \in found : \A o \in found : m[1] < o[1] \/ (m[1] = o[1] /\ m[2] <= o[2])
    IN  [matched   |-> found # {},
         lastIndex |-> IF ~global THEN li
                       ELSE IF found # {} THEN first[2] ELSE 0]

(***************************************************************************)
(* String helpers                                                          *)
(***************************************************************************)

\* String.prototype.trim: the text between its first and its last token that
\* is not whitespace.
Trim(s) ==
    LET solid == {i \in 1..Len(s) : s[i] \notin Whitespace} IN
    IF solid = {} THEN <<>>
    ELSE SubSeq(s, CHOOSE i \in solid : \A j \in solid : i <= j,
                   CHOOSE i \in solid : \A j \in solid : i >= j)

RECURSIVE SplitFrom(_, _, _)
SplitFrom(s, i, line) ==
    IF i > Len(s) THEN <<line>>
    ELSE IF s[i] = "\n" THEN <<line>> \o SplitFrom(s, i + 1, <<>>)
    ELSE SplitFrom(s, i + 1, Append(line, s[i]))

\* content.split("\n"): the empty string splits into one empty line.
Split(s) == SplitFrom(s, 1, <<>>)

RECURSIVE Join(_)
\* lines.join("\n"): no lines join into the empty string.
Join(lines) ==
    IF lines = <<>> THEN <<>>
    ELSE IF Len(lines) = 1 THEN lines[1]
    ELSE lines[1] \o <<"\n">> \o Join(Tail(lines))

(***************************************************************************)
(* Scoring plugin                                                          *)
(***************************************************************************)

\* `${signal.label}(${signal.score > 0 ? "+" : ""}${signal.score})`
MatchedEntry(signal) ==
    <<signal.label, IF signal.score > 0 THEN "+" ELSE "", signal.score>>

\* ScoreStep with the score assigned instead of added (score = signal.score).
ScoreStepAssign(signal, text, li, acc) ==
    LET t == RegExpTest(signal.pattern, text, li) IN
    [score     |-> IF t.matched THEN signal.score ELSE acc.score,
     matched   |-> IF t.matched THEN Append(acc.matched, MatchedEntry(signal))
                   ELSE acc.matched,
     lastIndex |-> Append(acc.lastIndex, t.lastIndex)]

\* One turn of the loop of scoreMessage, on the signal and the lastIndex of
\* its RegExp: if (signal.pattern.test(content)) { score += ...; matched.push(...) }
ScoreStep(signal, text, li, acc) ==
    LET t == RegExpTest(signal.pattern, text, li) IN
    [score     |-> IF t.matched THEN acc.score + signal.score ELSE acc.score,
     matched   |-> IF t.matched THEN Append(acc.matched, MatchedEntry(signal))
                   ELSE acc.matched,
     lastIndex |-> Append(acc.lastIndex, t.lastIndex)]

RECURSIVE ScoreLoop(_, _, _, _, _)
\* for (const signal of SIGNALS) { ... }.  The accumulator of each turn is
\* bound (a \in {acc}), so that it is evaluated once.
ScoreLoop(signals, text, li, i, acc) ==
    IF i > Len(signals) THEN acc
    ELSE CHOOSE out \in {ScoreLoop(signals, text, li, i + 1, next) :
                    next \in {ScoreStep(signals[i], text, li[i], a) : a \in {acc}}} : TRUE

\* scoreMessage over a registry `signals` whose RegExp objects hold lastIndex li.
ScoreWith(signals, text, li) ==
    ScoreLoop(signals, text, li, 1,
              [score |-> 0, matched |-> <<>>, lastIndex |-> <<>>])

scoreMessage(text, li) == ScoreWith(SIGNALS, text, li)

\* event.content of a message without text: a value that is no string.
Undefined == [i \in {0} |-> "undefined"]

\* !content testing for undefined only (content === undefined).
FalsyUndefinedOnly(c) == c = Undefined

\* !content: undefined and the empty string are falsy, every other string
\* is truthy.
Falsy(c) == c = Undefined \/ c = <<>>

NoDecision == [kind |-> "None", content |-> <<>>]
PassThrough == [kind |-> "PassThrough", content |-> <<>>]
Cancel == [kind |-> "Cancel", content |-> <<>>]
ReplaceContent(text) == [kind |-> "ReplaceContent", content |-> text]

\* The message_sending hook of the scoring plugin, on event.content c and
\* ctx.channelId ch: what it returns, what it logs, and the RegExp state it
\* leaves.
\* ThresholdResult blocking only above the threshold (score > BLOCK_THRESHOLD).
ThresholdResultStrict(r, li) ==
    LET info == IF Len(r.matched) > 0
                THEN <<[level |-> "info", what |-> "Score",
                        score |-> r.score, lines |-> r.matched]>>
                ELSE <<>>
        li2 == [li EXCEPT !.signals = r.lastIndex]
    IN  IF r.score > BLOCK_THRESHOLD
        THEN [decision |-> Cancel,
              emitted |-> info \o <<[level |-> "warn", what |-> "BLOCKED",
                                     score |-> r.score, lines |-> <<>>]>>,
              lastIndex |-> li2, calls |-> <<"scoreMessage">>]
        ELSE [decision |-> PassThrough, emitted |-> info, lastIndex |-> li2,
              calls |-> <<"scoreMessage">>]

\* The hook after scoreMessage(content) has returned r.
ThresholdResult(r, li) ==
    LET info == IF Len(r.matched) > 0
                THEN <<[level |-> "info", what |-> "Score",
                        score |-> r.score, lines |-> r.matched]>>
                ELSE <<>>
        li2 == [li EXCEPT !.signals = r.lastIndex]
    IN  IF r.score >= BLOCK_THRESHOLD
        THEN [decision |-> Cancel,
              emitted |-> info \o <<[level |-> "warn", what |-> "BLOCKED",
                                     score |-> r.score, lines |-> <<>>]>>,
              lastIndex |-> li2, calls |-> <<"scoreMessage">>]
        ELSE [decision |-> PassThrough, emitted |-> info, lastIndex |-> li2,
              calls |-> <<"scoreMessage">>]

\* ThresholdHook without the channel guard of line 160.
ThresholdHookAnyChannel(c, ch, li) ==
    IF Falsy(c)
    THEN [decision |-> PassThrough, emitted |-> <<>>, lastIndex |-> li,
          calls |-> <<>>]
    ELSE CHOOSE out \in {ThresholdResult(r, li) :
                            r \in {scoreMessage(c, li.signals)}} : TRUE

ThresholdHook(c, ch, li) ==
    IF ch # "whatsapp" \/ Falsy(c)
    THEN [decision |-> PassThrough, emitted |-> <<>>, lastIndex |-> li,
          calls |-> <<>>]
    ELSE CHOOSE out \in {ThresholdResult(r, li) :
                            r \in {scoreMessage(c, li.signals)}} : TRUE

(***************************************************************************)
(* Line filter plugin                                                      *)
(***************************************************************************)

\* for (const p of patterns) { if (p.test(s)) return ...; }: whether some
\* pattern matches, and the lastIndex of the RegExp objects afterwards.  The
\* loop returns at the first match: the patterns after it are not tested.
FirstMatch(patterns, s, li) ==
    LET hits == {i \in 1..Len(patterns) : RegExpTest(patterns[i], s, li[i]).matched}
        tested(i) == \A h \in hits : i <= h
    IN  [hit |-> hits # {},
         lastIndex |-> [i \in 1..Len(patterns) |->
                          IF tested(i) THEN RegExpTest(patterns[i], s, li[i]).lastIndex
                          ELSE li[i]]]

\* ClassifyTrimmed with the two loops swapped: the thought patterns decide
\* before the safe patterns are looked at.
ClassifyThoughtFirst(trimmed, li) ==
    CHOOSE out \in
        {IF th.hit
         THEN [thought |-> TRUE, lastIndex |-> [li EXCEPT !.thought = th.lastIndex]]
         ELSE [thought |-> FALSE, lastIndex |-> [li EXCEPT !.thought = th.lastIndex]] :
            th \in {FirstMatch(THOUGHT_PATTERNS, trimmed, li.thought)}} : TRUE

\* isThoughtLine on the trimmed line: the safe patterns first, then the
\* thought patterns.
ClassifyTrimmed(trimmed, li) ==
    CHOOSE out \in
        {IF safe.hit
         THEN [thought |-> FALSE, lastIndex |-> [li EXCEPT !.safe = safe.lastIndex]]
         ELSE CHOOSE res \in
                {[thought |-> th.hit,
                  lastIndex |-> [li EXCEPT !.safe = safe.lastIndex,
                                           !.thought = th.lastIndex]] :
                    th \in {FirstMatch(THOUGHT_PATTERNS, trimmed, li.thought)}} : TRUE :
            safe \in {FirstMatch(SAFE_PATTERNS, trimmed, li.safe)}} : TRUE

\* isThoughtLine testing the line as it is (no line.trim()).
isThoughtLineUntrimmed(line, li) ==
    IF line = <<>> THEN [thought |-> FALSE, lastIndex |-> li]
    ELSE ClassifyTrimmed(line, li)

isThoughtLine(line, li) ==
    IF Trim(line) = <<>> THEN [thought |-> FALSE, lastIndex |-> li]
    ELSE ClassifyTrimmed(Trim(line), li)

\* FilterStep recording the trimmed line (removed.push(line.trim())).
FilterStepPushTrimmed(line, acc) ==
    CHOOSE out \in
        {[kept      |-> IF r.thought THEN acc.kept ELSE Append(acc.kept, line),
          removed   |-> IF r.thought THEN Append(acc.removed, Trim(line)) ELSE acc.removed,
          lastIndex |-> r.lastIndex] :
            r \in {isThoughtLine(line, acc.lastIndex)}} : TRUE

\* FilterStep putting a kept line in front of the kept lines
\* (kept.unshift(line) in place of kept.push(line)).
FilterStepUnshift(line, acc) ==
    CHOOSE out \in
        {[kept      |-> IF r.thought THEN acc.kept ELSE <<line>> \o acc.kept,
          removed   |-> IF r.thought THEN Append(acc.removed, line) ELSE acc.removed,
          lastIndex |-> r.lastIndex] :
            r \in {isThoughtLine(line, acc.lastIndex)}} : TRUE

\* One turn of the loop of filterThoughts:
\* if (isThoughtLine(line)) removed.push(line) else kept.push(line)
FilterStep(line, acc) ==
    CHOOSE out \in
        {[kept      |-> IF r.thought THEN acc.kept ELSE Append(acc.kept, line),
          removed   |-> IF r.thought THEN Append(acc.removed, line) ELSE acc.removed,
          lastIndex |-> r.lastIndex] :
            r \in {isThoughtLine(line, acc.lastIndex)}} : TRUE

RECURSIVE FilterLoop(_, _, _)
\* for (const line of lines) { ... }, the accumulator bound as in ScoreLoop.
FilterLoop(lines, i, acc) ==
    IF i > Len(lines) THEN acc
    ELSE CHOOSE out \in {FilterLoop(lines, i + 1, next) :
                    next \in {FilterStep(lines[i], a) : a \in {acc}}} : TRUE

\* The kept and removed lines of content, before the join and the trim.
Classify(text, li) ==
    CHOOSE out \in {FilterLoop(lines, 1, [kept |-> <<>>, removed |-> <<>>, lastIndex |-> l]) :
                       lines \in {Split(text)}, l \in {li}} : TRUE

filterThoughts(text, li) ==
    CHOOSE out \in
        {[filtered |-> Trim(Join(r.kept)), removed |-> r.removed,
          lastIndex |-> r.lastIndex] : r \in {Classify(text, li)}} : TRUE

\* The message_sending hook of the line filter plugin.
\* RedactionResult rewriting only when a line was removed
\* (removed.length > 0 in place of filtered !== original).
RedactionResultByRemoved(original, r) ==
    LET stripped == IF Len(r.removed) > 0
                    THEN <<[level |-> "warn", what |-> "Stripped",
                            score |-> Len(r.removed), lines |-> r.removed]>>
                    ELSE <<>>
    IN  IF r.filtered = <<>>
        THEN [decision |-> Cancel,
              emitted |-> stripped \o <<[level |-> "warn", what |-> "Cancelling",
                                         score |-> 0, lines |-> <<>>]>>,
              lastIndex |-> r.lastIndex, calls |-> <<"filterThoughts">>]
        ELSE IF Len(r.removed) > 0
        THEN [decision |-> ReplaceContent(r.filtered), emitted |-> stripped,
              lastIndex |-> r.lastIndex, calls |-> <<"filterThoughts">>]
        ELSE [decision |-> PassThrough, emitted |-> stripped,
              lastIndex |-> r.lastIndex, calls |-> <<"filterThoughts">>]

\* The hook after filterThoughts(original) has returned r.
RedactionResult(original, r) ==
    LET stripped == IF Len(r.removed) > 0
                    THEN <<[level |-> "warn", what |-> "Stripped",
                            score |-> Len(r.removed), lines |-> r.removed]>>
                    ELSE <<>>
    IN  IF r.filtered = <<>>
        THEN [decision |-> Cancel,
              emitted |-> stripped \o <<[level |-> "warn", what |-> "Cancelling",
                                         score |-> 0, lines |-> <<>>]>>,
              lastIndex |-> r.lastIndex, calls |-> <<"filterThoughts">>]
        ELSE IF r.filtered # original
        THEN [decision |-> ReplaceContent(r.filtered), emitted |-> stripped,
              lastIndex |-> r.lastIndex, calls |-> <<"filterThoughts">>]
        ELSE [decision |-> PassThrough, emitted |-> stripped,
              lastIndex |-> r.lastIndex, calls |-> <<"filterThoughts">>]

RedactionHook(c, ch, li) ==
    IF ch # "whatsapp" \/ Falsy(c)
    THEN [decision |-> PassThrough, emitted |-> <<>>, lastIndex |-> li,
          calls |-> <<>>]
    ELSE CHOOSE out \in {RedactionResult(c, r) : r \in {filterThoughts(c, li)}} : TRUE

(***************************************************************************)
(* The delivery pipeline: the agent writes a message, the pipeline hands   *)
(* it to a message_sending hook, and the next message follows.             *)
(***************************************************************************)

FreshLastIndex ==
    [signals |-> [i \in 1..Len(SIGNALS) |-> 0],
     thought |-> [i \in 1..Len(THOUGHT_PATTERNS) |-> 0],
     safe    |-> [i \in 1..Len(SAFE_PATTERNS) |-> 0]]

\* event.content as the pipeline hands it to a hook.
EventContent == IF absent THEN Undefined ELSE content

Init ==
    /\ content = <<>>
    /\ absent = FALSE
    /\ channelId = "none"
    /\ hook = "none"
    /\ pc = "compose"
    /\ decision = NoDecision
    /\ emitted = <<>>
    /\ lastIndex = FreshLastIndex
    /\ calls = <<>>
    /\ earlier = FALSE

\* The agent appends a token to the outgoing message.
Compose(tok) ==
    /\ pc = "compose"
    /\ ~absent
    /\ Len(content) < MaxLen
    /\ content' = Append(content, tok)
    /\ UNCHANGED <<absent, channelId, hook, pc, decision, emitted, lastIndex, calls,
                   earlier>>

\* The agent sends a message without text (event.content is undefined).
ComposeNoText ==
    /\ pc = "compose"
    /\ ~absent
    /\ content = <<>>
    /\ absent' = TRUE
    /\ UNCHANGED <<content, channelId, hook, pc, decision, emitted, lastIndex, calls,
                   earlier>>

\* api.on("message_sending", ...) of the scoring plugin runs on the message.
ThresholdMessageSending(ch) ==
    \E r \in {ThresholdHook(EventContent, ch, lastIndex)} :
    /\ channelId' = ch
    /\ hook' = "threshold"
    /\ pc' = "sent"
    /\ decision' = r.decision
    /\ emitted' = r.emitted
    /\ lastIndex' = r.lastIndex
    /\ calls' = r.calls
    /\ UNCHANGED <<content, absent, earlier>>

\* api.on("message_sending", ...) of the line filter plugin runs on the message.
RedactionMessageSending(ch) ==
    \E r \in {RedactionHook(EventContent, ch, lastIndex)} :
    /\ channelId' = ch
    /\ hook' = "redaction"
    /\ pc' = "sent"
    /\ decision' = r.decision
    /\ emitted' = r.emitted
    /\ lastIndex' = r.lastIndex
    /\ calls' = r.calls
    /\ UNCHANGED <<content, absent, earlier>>

\* The pipeline is done with the message; the registries live on.
NextMessage ==
    /\ pc = "sent"
    /\ content' = <<>>
    /\ absent' = FALSE
    /\ channelId' = "none"
    /\ hook' = "none"
    /\ pc' = "compose"
    /\ decision' = NoDecision
    /\ emitted' = <<>>
    /\ calls' = <<>>
    /\ earlier' = TRUE
    /\ UNCHANGED lastIndex

Next ==
    \/ \E tok \in Vocabulary : Compose(tok)
    \/ ComposeNoText
    \/ \E ch \in Channels : ThresholdMessageSending(ch)
    \/ \E ch \in Channels : RedactionMessageSending(ch)
    \/ NextMessage

Spec == Init /\ [][Next]_vars

TypeOK ==
    /\ Vocabulary \subseteq Lexicon
    /\ Len(content) <= MaxLen
    /\ absent \in BOOLEAN
    /\ absent => content = <<>>
    /\ calls \in {<<>>, <<"scoreMessage">>, <<"filterThoughts">>}
    /\ \A i \in 1..Len(content) : content[i] \in Vocabulary
    /\ pc \in {"compose", "sent"}
    /\ hook \in {"none", "threshold", "redaction"}
    /\ channelId \in Channels \cup {"none"}
    /\ decision.kind \in {"None", "PassThrough", "Cancel", "ReplaceContent"}


(***************************************************************************)
(* Properties                                                              *)
(***************************************************************************)

\* A hook has just decided on a WhatsApp message with a non-empty text.
Decided(h) ==
    pc = "sent" /\ hook = h /\ channelId = "whatsapp" /\ content # <<>>

C2_ThresholdDecision ==
    Decided("threshold") =>
        LET score == scoreMessage(content, lastIndex.signals).score IN
        /\ decision = Cancel <=> score >= 50
        /\ decision = PassThrough <=> score < 50
        /\ decision.kind # "ReplaceContent"

\* A message scoring exactly 50 (monologue-start 40, meta-commentary 25,
\* short-message -15) is cancelled.
C2_Witness ==
    /\ Decided("threshold")
    /\ scoreMessage(content, lastIndex.signals).score = 50
    /\ decision = Cancel

\* The whole-message detector of the design (no function of the source):
\* some whole-message signal occurs anywhere in the full text.  The signals
\* are those of the design's example, a passage narrating what the client
\* sent "but doesn't say what he wants".
WHOLE_MESSAGE_PATTERNS == <<
    [kind |-> "find", head |-> {"Pero no me dice", "me manda foto", "Veo que pide"},
     tail |-> {}] >>

isWholeMessageThought(text) ==
    \E k \in 1..Len(WHOLE_MESSAGE_PATTERNS) : Matches(WHOLE_MESSAGE_PATTERNS[k], text) # {}

\* C3: whenever isWholeMessageThought(t) holds, filterThoughts(t) returns the
\* empty filtered text and the whole of t as its single removed unit.
C3_WholeMessageShortCircuit ==
    (Decided("redaction") /\ isWholeMessageThought(content)) =>
        LET r == filterThoughts(content, lastIndex) IN
        r.filtered = <<>> /\ r.removed = <<content>>

\* The multiset of the elements of a sequence.
BagOf(seq) ==
    [x \in {seq[i] : i \in 1..Len(seq)} |-> Cardinality({i \in 1..Len(seq) : seq[i] = x})]

\* C4 as stated: the removed lines together with the lines of the filtered
\* text are, as a multiset, the lines of the original text.
C4_LinesOfFilteredText ==
    LET r == filterThoughts(content, lastIndex) IN
    BagOf(r.removed \o Split(r.filtered)) = BagOf(Split(content))

\* C4, amended: the removed lines together with the kept lines, as they are
\* before the join and the trim, are as a multiset the lines of the original
\* text; the same holds of the lines of the filtered text when a line is kept
\* and the trim leaves the joined kept lines as they are.
C4_KeptAndRemovedLines ==
    LET r == Classify(content, lastIndex)
        f == filterThoughts(content, lastIndex)
    IN  /\ f.removed = r.removed
        /\ BagOf(r.removed \o r.kept) = BagOf(Split(content))
        /\ (r.kept # <<>> /\ Trim(Join(r.kept)) = Join(r.kept)) =>
               BagOf(f.removed \o Split(f.filtered)) = BagOf(Split(content))

\* A text with a removed line and a kept line that the trim leaves alone.
C4_Witness ==
    /\ content = <<"Voy a buscar", "\n", "gracias">>
    /\ filterThoughts(content, lastIndex).removed = << <<"Voy a buscar">> >>
    /\ filterThoughts(content, lastIndex).filtered = <<"gracias">>
    /\ Classify(content, lastIndex).kept = << <<"gracias">> >>

\* C5: a WhatsApp message with non-empty text from which filterThoughts
\* removes no line gets no result from the line filter hook.
C5_NoThoughtPassesUnchanged ==
    (Decided("redaction") /\ filterThoughts(content, lastIndex).removed = <<>>) =>
        decision = PassThrough

\* Some pattern of the registry matches the line as it stands.
MatchesAny(patterns, line) ==
    \E k \in 1..Len(patterns) : Matches(patterns[k], line) # {}

\* The lines of a sequence of lines, as a set.
LinesOf(lines) == {lines[i] : i \in 1..Len(lines)}

\* C6: a line that matches a safe pattern is never a thought line, whatever
\* thought patterns match it too, and filterThoughts never removes such a line.
C6_VetoPrecedence ==
    /\ \A l \in LinesOf(Split(content)) :
           MatchesAny(SAFE_PATTERNS, l) => ~isThoughtLine(l, lastIndex).thought
    /\ \A l \in LinesOf(filterThoughts(content, lastIndex).removed) :
           ~MatchesAny(SAFE_PATTERNS, l)

\* A line that a safe pattern and a thought pattern both match, kept.
C6_Witness ==
    /\ Decided("redaction")
    /\ Len(Split(content)) = 1
    /\ MatchesAny(SAFE_PATTERNS, content)
    /\ MatchesAny(THOUGHT_PATTERNS, content)
    /\ filterThoughts(content, lastIndex).removed = <<>>
    /\ decision = PassThrough

\* C7: filtering the filtered text again returns it unchanged and removes
\* no line.
C7_Idempotent ==
    LET once  == filterThoughts(content, lastIndex)
        twice == filterThoughts(once.filtered, once.lastIndex)
    IN  twice.filtered = once.filtered /\ twice.removed = <<>>

\* A text whose first pass removes a line and leaves a line.
C7_Witness ==
    LET once == filterThoughts(content, lastIndex) IN
    /\ content = <<"gracias", "\n", "Voy a buscar">>
    /\ once.removed = << <<"Voy a buscar">> >>
    /\ once.filtered = <<"gracias">>
    /\ filterThoughts(once.filtered, once.lastIndex).filtered = <<"gracias">>

RECURSIVE SumOfScores(_, _)
\* The sum of the scores of the signals whose index is in the set.
SumOfScores(signals, indices) ==
    IF indices = {} THEN 0
    ELSE LET i == CHOOSE j \in indices : TRUE
         IN  signals[i].score + SumOfScores(signals, indices \ {i})

\* The indices of the signals of the registry whose pattern matches the text.
MatchingSignals(signals, text) ==
    {i \in 1..Len(signals) : Matches(signals[i].pattern, text) # {}}

\* The labels of the matching signals, by ascending index in the registry.
LabelsInOrder(signals, text) ==
    LET idx == MatchingSignals(signals, text) IN
    [k \in 1..Cardinality(idx) |->
        MatchedEntry(signals[CHOOSE i \in idx : Cardinality({j \in idx : j < i}) = k - 1])]

\* Signals that may be added to the registry.
ExtraSignals ==
    {[pattern |-> [kind |-> "find", head |-> {"gracias"}, tail |-> {}],
      score |-> 40, label |-> "extra-thought"],
     [pattern |-> [kind |-> "prefix", head |-> {"Voy a buscar"}, tail |-> {}],
      score |-> -35, label |-> "extra-client"]}

\* C8: the score is the sum of the weights of exactly the signals that match,
\* matched lists their labels in registry order, and a signal added to the
\* registry that does not match the text leaves the score unchanged.
C8_ScoreIsSumOfMatches ==
    LET r == scoreMessage(content, lastIndex.signals) IN
    /\ r.score = SumOfScores(SIGNALS, MatchingSignals(SIGNALS, content))
    /\ r.matched = LabelsInOrder(SIGNALS, content)
    /\ \A e \in ExtraSignals :
           Matches(e.pattern, content) = {} =>
               ScoreWith(Append(SIGNALS, e), content,
                         Append(lastIndex.signals, 0)).score = r.score

\* A text matched by signals of both signs: 25 - 50 - 15.
C8_Witness ==
    /\ Decided("threshold")
    /\ content = <<"hola", " ", "quiere saber">>
    /\ scoreMessage(content, lastIndex.signals).score = -40
    /\ scoreMessage(content, lastIndex.signals).matched =
           << <<"meta-commentary", "+", 25>>, <<"greeting", "", -50>>,
              <<"short-message", "", -15>> >>

\* C9: a message on another channel than "whatsapp" passes both hooks: no
\* cancel, no replacement, and nothing is logged.
C9_ChannelGating ==
    (pc = "sent" /\ channelId # "whatsapp") =>
        decision = PassThrough /\ emitted = <<>>

\* A Telegram message that either hook would act on had it been WhatsApp.
C9_Witness ==
    /\ pc = "sent"
    /\ channelId = "telegram"
    /\ decision = PassThrough
    /\ ThresholdHook(content, "whatsapp", lastIndex).decision = Cancel
    /\ RedactionHook(content, "whatsapp", lastIndex).decision.kind = "ReplaceContent"

\* C10: whatever was sent before, the decision on a message is the one its
\* text and channel get from the registries as they were first built, and the
\* RegExp objects of the registries are as they were first built.
C10_NoCrossMessageMemory ==
    /\ lastIndex = FreshLastIndex
    /\ (pc = "sent" /\ hook = "threshold") =>
           /\ decision = ThresholdHook(content, channelId, FreshLastIndex).decision
           /\ emitted = ThresholdHook(content, channelId, FreshLastIndex).emitted
    /\ (pc = "sent" /\ hook = "redaction") =>
           /\ decision = RedactionHook(content, channelId, FreshLastIndex).decision
           /\ emitted = RedactionHook(content, channelId, FreshLastIndex).emitted

\* A message decided after an earlier message went through a hook.
C10_Witness ==
    /\ earlier
    /\ Decided("redaction")
    /\ decision.kind = "ReplaceContent"
    /\ filterThoughts(content, lastIndex).removed # <<>>

\* The elements of a sequence at the indices of a set, by ascending index.
SelectAt(seq, idx) ==
    [k \in 1..Cardinality(idx) |->
        seq[CHOOSE i \in idx : Cardinality({j \in idx : j < i}) = k - 1]]

\* The indices of the lines of a text that isThoughtLine takes for thoughts.
ThoughtIndices(text, li) ==
    {i \in 1..Len(Split(text)) : isThoughtLine(Split(text)[i], li).thought}

\* The lines of a text that are thoughts, and those that are not, each in
\* the order of the text and as they stand in it.
ThoughtLines(text, li) == SelectAt(Split(text), ThoughtIndices(text, li))

NonThoughtLines(text, li) ==
    SelectAt(Split(text), (1..Len(Split(text))) \ ThoughtIndices(text, li))

\* s is t without a run of whitespace at its start and at its end, and has
\* no whitespace left at either end.
StrippedOf(s, t) ==
    /\ s # <<>> => (s[1] \notin Whitespace /\ s[Len(s)] \notin Whitespace)
    /\ \E i \in 1..(Len(t) + 1) :
           /\ i + Len(s) - 1 <= Len(t)
           /\ s = [k \in 1..Len(s) |-> t[i + k - 1]]
           /\ \A k \in 1..Len(t) : (k < i \/ k > i + Len(s) - 1) => t[k] \in Whitespace

\* C11 as stated: the lines of the filtered text are exactly the lines of the
\* text that are not thought lines, in their order and unchanged, and removed
\* is the thought lines in their order.
C11_FilteredLinesAreNonThoughtLines ==
    LET f == filterThoughts(content, lastIndex) IN
    /\ Split(f.filtered) = NonThoughtLines(content, lastIndex)
    /\ f.removed = ThoughtLines(content, lastIndex)

\* C11, amended: removed is the thought lines of the text in their order and
\* unchanged; the kept lines, before the join and the trim, are the other
\* lines in their order and unchanged; the filtered text is the kept lines
\* joined by line breaks, less the whitespace at its two ends; and its lines
\* are the lines that are not thoughts when a line is kept and the joined
\* kept lines have no whitespace at either end.
C11_OnlyDeletes ==
    LET r == Classify(content, lastIndex)
        f == filterThoughts(content, lastIndex)
    IN  /\ f.removed = ThoughtLines(content, lastIndex)
        /\ r.kept = NonThoughtLines(content, lastIndex)
        /\ StrippedOf(f.filtered, Join(NonThoughtLines(content, lastIndex)))
        /\ (r.kept # <<>> /\ StrippedOf(Join(r.kept), Join(r.kept))) =>
               Split(f.filtered) = NonThoughtLines(content, lastIndex)

\* A message of two different lines, neither a thought, that the line filter
\* hook has left as it was: its lines come out in their order.
C11_Witness ==
    /\ Decided("redaction")
    /\ Len(NonThoughtLines(content, lastIndex)) = 2
    /\ NonThoughtLines(content, lastIndex)[1] = <<"gracias">>
    /\ NonThoughtLines(content, lastIndex)[2] = <<"hola">>
    /\ Split(filterThoughts(content, lastIndex).filtered) = << <<"gracias">>, <<"hola">> >>
    /\ decision = PassThrough

\* C12: when a hook is handed a message whose text is absent or empty, on
\* whatever channel, it returns nothing (no cancel, no replacement), it calls
\* neither scoreMessage nor filterThoughts, and it logs nothing.
C12_MissingBodyPassesThrough ==
    (pc = "sent" /\ (absent \/ content = <<>>)) =>
        /\ decision = PassThrough
        /\ calls = <<>>
        /\ emitted = <<>>
        /\ lastIndex = FreshLastIndex

\* A WhatsApp message without text has gone through the line filter hook.
C12_Witness ==
    /\ pc = "sent"
    /\ hook = "redaction"
    /\ channelId = "whatsapp"
    /\ absent
    /\ EventContent = Undefined
    /\ decision = PassThrough
    /\ calls = <<>>
====
